---- MODULE Spec2Model ----
(***************************************************************************)
(* Age & Era Calculator: the date calculations of logic.py and the form    *)
(* handler of app.py.                                                      *)
(*                                                                         *)
(* A date is a record [year, month, day].  A call's outcome is a record    *)
(* whose kind is "return" or the exception raised ("ValueError",           *)
(* "Exception"); kind "none" means that the call has not been made.        *)
(* An optional argument is a record [given, val]; given = FALSE is None.   *)
(***************************************************************************)
EXTENDS Integers, Sequences, FiniteSets

VARIABLES
    today,        \* what date.today() returns
    OpenAI,       \* the import of the client library succeeded
    env,          \* what the last generate_summary call met: key, provider
    pc,           \* "idle", or the operation that has run
    age,          \* the age argument of parse_birthdate
    dob,          \* the dob argument of parse_birthdate
    birth,        \* outcome of parse_birthdate
    subject,      \* the date given to compute_periods / get_star_sign
    periods,      \* outcome of compute_periods
    star_sign,    \* outcome of get_star_sign ("" when not called)
    year,         \* the year given to get_generation
    generation,   \* outcome of get_generation ("" when not called)
    summary,      \* outcome of generate_summary
    ui_error,     \* st.error was shown
    crashed       \* an exception escaped the form handler

vars == <<today, OpenAI, env, pc, age, dob, birth, subject, periods, star_sign,
          year, generation, summary, ui_error, crashed>>

----------------------------------------------------------------------------
(* Bounds of the inputs that the model draws.                              *)

MaxAgeInput == 131
MaxYearInput == 2030

MinAgeInput == 0 - 2
MinYearInput == MaxYearInput - 140

----------------------------------------------------------------------------
(* datetime.date                                                           *)

Date(y, m, d) == [year |-> y, month |-> m, day |-> d]

NoDate == Date(0, 0, 0)

IsLeap(y) == (y % 4 = 0) /\ ((y % 100 # 0) \/ (y % 400 = 0))

DaysInMonth(y, m) ==
    IF m = 2 THEN (IF IsLeap(y) THEN 29 ELSE 28)
    ELSE IF m \in {4, 6, 9, 11} THEN 30 ELSE 31

ValidDate(y, m, d) ==
    /\ y \in 1..9999
    /\ m \in 1..12
    /\ d >= 1
    /\ d <= DaysInMonth(y, m)

Returned(v) == [kind |-> "return", val |-> v, msg |-> ""]

Raised(k, m) == [kind |-> k, val |-> NoDate, msg |-> m]

NotCalled == [kind |-> "none", val |-> NoDate, msg |-> ""]

\* date(y, m, d): the constructor raises ValueError for a day that does
\* not exist.
date_new(y, m, d) ==
    IF ValidDate(y, m, d) THEN Returned(Date(y, m, d))
    ELSE Raised("ValueError", "day is out of range for month")

\* birth.replace(year=y)
date_replace(b, y) == date_new(y, b.month, b.day)

\* a > b on dates
DateGT(a, b) ==
    \/ a.year > b.year
    \/ a.year = b.year /\ a.month > b.month
    \/ a.year = b.year /\ a.month = b.month /\ a.day > b.day

DateLT(a, b) == DateGT(b, a)

DateLE(a, b) == ~DateGT(a, b)

None == [given |-> FALSE, val |-> 0]

NoneDob == [given |-> FALSE, val |-> NoDate]

Some(v) == [given |-> TRUE, val |-> v]

----------------------------------------------------------------------------
(* logic.py                                                                *)

\* parse_birthdate without the test for both arguments
parse_birthdate_NoBothCheck(a, d, t) ==
    IF FALSE
    THEN Raised("ValueError", "not both")
    ELSE IF d.given
    THEN IF DateGT(d.val, t)
         THEN Raised("ValueError", "future")
         ELSE Returned(d.val)
    ELSE IF a.given
    THEN IF ~(0 < a.val /\ a.val < 130)
         THEN Raised("ValueError", "age range")
         ELSE LET first == date_new(t.year - a.val, t.month, t.day)
              IN  IF first.kind = "return" THEN first
                  ELSE date_new(t.year - a.val, t.month, t.day - 1)
    ELSE Raised("ValueError", "neither")

\* parse_birthdate with the age test off by one
parse_birthdate_AgeUpTo130(a, d, t) ==
    IF d.given /\ a.given
    THEN Raised("ValueError", "not both")
    ELSE IF d.given
    THEN IF DateGT(d.val, t)
         THEN Raised("ValueError", "future")
         ELSE Returned(d.val)
    ELSE IF a.given
    THEN IF ~(0 < a.val /\ a.val <= 130)
         THEN Raised("ValueError", "age range")
         ELSE LET first == date_new(t.year - a.val, t.month, t.day)
              IN  IF first.kind = "return" THEN first
                  ELSE date_new(t.year - a.val, t.month, t.day - 1)
    ELSE Raised("ValueError", "neither")

\* parse_birthdate with dob >= today in place of dob > today
parse_birthdate_TodayRejected(a, d, t) ==
    IF d.given /\ a.given
    THEN Raised("ValueError", "not both")
    ELSE IF d.given
    THEN IF ~DateLT(d.val, t)
         THEN Raised("ValueError", "future")
         ELSE Returned(d.val)
    ELSE IF a.given
    THEN IF ~(0 < a.val /\ a.val < 130)
         THEN Raised("ValueError", "age range")
         ELSE LET first == date_new(t.year - a.val, t.month, t.day)
              IN  IF first.kind = "return" THEN first
                  ELSE date_new(t.year - a.val, t.month, t.day - 1)
    ELSE Raised("ValueError", "neither")

parse_birthdate(a, d, t) ==
    IF d.given /\ a.given
    THEN Raised("ValueError", "not both")
    ELSE IF d.given
    THEN IF DateGT(d.val, t)
         THEN Raised("ValueError", "future")
         ELSE Returned(d.val)
    ELSE IF a.given
    THEN IF ~(0 < a.val /\ a.val < 130)
         THEN Raised("ValueError", "age range")
         ELSE LET first == date_new(t.year - a.val, t.month, t.day)
              IN  IF first.kind = "return" THEN first
                  ELSE date_new(t.year - a.val, t.month, t.day - 1)
    ELSE Raised("ValueError", "neither")

\* teen_end one year early
Offsets_TeenEnd18 == <<5, 12, 13, 18, 20, 29>>

Offsets == <<5, 12, 13, 19, 20, 29>>

NoPeriods == [kind |-> "none", val |-> <<>>]

\* The six replace() calls run in order; the first one that raises ends
\* the call.
compute_periods(b) ==
    LET r(i) == date_replace(b, b.year + Offsets[i])
    IN  IF \A i \in 1..6 : r(i).kind = "return"
        THEN [kind |-> "return", val |-> [i \in 1..6 |-> r(i).val]]
        ELSE [kind |-> "ValueError", val |-> <<>>]

Generations ==
    <<"Silent Generation", "Baby Boomer", "Generation X", "Millennial",
      "Generation Z", "Generation Alpha">>

\* get_generation with the Baby Boomer range starting a year late
GenerationMatches_Gap1946(i, y) ==
    CASE i = 1 -> 1928 <= y /\ y <= 1945
      [] i = 2 -> 1947 <= y /\ y <= 1964
      [] i = 3 -> 1965 <= y /\ y <= 1980
      [] i = 4 -> 1981 <= y /\ y <= 1996
      [] i = 5 -> 1997 <= y /\ y <= 2012
      [] i = 6 -> y >= 2013

\* the condition of the i-th if of get_generation
GenerationMatches(i, y) ==
    CASE i = 1 -> 1928 <= y /\ y <= 1945
      [] i = 2 -> 1946 <= y /\ y <= 1964
      [] i = 3 -> 1965 <= y /\ y <= 1980
      [] i = 4 -> 1981 <= y /\ y <= 1996
      [] i = 5 -> 1997 <= y /\ y <= 2012
      [] i = 6 -> y >= 2013

\* the first if whose condition holds returns
get_generation(y) ==
    IF \E i \in 1..6 : GenerationMatches(i, y)
    THEN LET first == CHOOSE i \in 1..6 :
                        /\ GenerationMatches(i, y)
                        /\ \A j \in 1..(i - 1) : ~GenerationMatches(j, y)
         IN  Generations[first]
    ELSE "Unknown"

Signs ==
    <<"Capricorn", "Aquarius", "Pisces", "Aries", "Taurus", "Gemini",
      "Cancer", "Leo", "Virgo", "Libra", "Scorpio", "Sagittarius">>

\* get_star_sign with Pisces starting a day late
SignMatches_PiscesFrom20(i, m, d) ==
    CASE i = 1  -> (m = 12 /\ d >= 22) \/ (m = 1 /\ d <= 19)
      [] i = 2  -> (m = 1 /\ d >= 20) \/ (m = 2 /\ d <= 18)
      [] i = 3  -> (m = 2 /\ d >= 20) \/ (m = 3 /\ d <= 20)
      [] i = 4  -> (m = 3 /\ d >= 21) \/ (m = 4 /\ d <= 19)
      [] i = 5  -> (m = 4 /\ d >= 20) \/ (m = 5 /\ d <= 20)
      [] i = 6  -> (m = 5 /\ d >= 21) \/ (m = 6 /\ d <= 20)
      [] i = 7  -> (m = 6 /\ d >= 21) \/ (m = 7 /\ d <= 22)
      [] i = 8  -> (m = 7 /\ d >= 23) \/ (m = 8 /\ d <= 22)
      [] i = 9  -> (m = 8 /\ d >= 23) \/ (m = 9 /\ d <= 22)
      [] i = 10 -> (m = 9 /\ d >= 23) \/ (m = 10 /\ d <= 22)
      [] i = 11 -> (m = 10 /\ d >= 23) \/ (m = 11 /\ d <= 21)
      [] i = 12 -> (m = 11 /\ d >= 22) \/ (m = 12 /\ d <= 21)

\* the condition of the i-th if of get_star_sign
SignMatches(i, m, d) ==
    CASE i = 1  -> (m = 12 /\ d >= 22) \/ (m = 1 /\ d <= 19)
      [] i = 2  -> (m = 1 /\ d >= 20) \/ (m = 2 /\ d <= 18)
      [] i = 3  -> (m = 2 /\ d >= 19) \/ (m = 3 /\ d <= 20)
      [] i = 4  -> (m = 3 /\ d >= 21) \/ (m = 4 /\ d <= 19)
      [] i = 5  -> (m = 4 /\ d >= 20) \/ (m = 5 /\ d <= 20)
      [] i = 6  -> (m = 5 /\ d >= 21) \/ (m = 6 /\ d <= 20)
      [] i = 7  -> (m = 6 /\ d >= 21) \/ (m = 7 /\ d <= 22)
      [] i = 8  -> (m = 7 /\ d >= 23) \/ (m = 8 /\ d <= 22)
      [] i = 9  -> (m = 8 /\ d >= 23) \/ (m = 9 /\ d <= 22)
      [] i = 10 -> (m = 9 /\ d >= 23) \/ (m = 10 /\ d <= 22)
      [] i = 11 -> (m = 10 /\ d >= 23) \/ (m = 11 /\ d <= 21)
      [] i = 12 -> (m = 11 /\ d >= 22) \/ (m = 12 /\ d <= 21)

get_star_sign(b) ==
    IF \E i \in 1..12 : SignMatches(i, b.month, b.day)
    THEN LET first == CHOOSE i \in 1..12 :
                        /\ SignMatches(i, b.month, b.day)
                        /\ \A j \in 1..(i - 1) : ~SignMatches(j, b.month, b.day)
         IN  Signs[first]
    ELSE "Unknown"

NoSummary == [kind |-> "none", text |-> ""]

\* lib: the OpenAI name is bound to the client class; e.key: OPENAI_API_KEY
\* is set and not empty; e.provider: what the client library does when used.
generate_summary(lib, e) ==
    IF ~lib \/ ~e.key
    THEN [kind |-> "return", text |-> "placeholder"]
    ELSE IF e.provider = "ctor_raises"
    THEN [kind |-> "Exception", text |-> ""]
    ELSE IF e.provider \in {"create_raises", "read_raises"}
    THEN [kind |-> "return", text |-> "error"]
    ELSE [kind |-> "return", text |-> "content"]

----------------------------------------------------------------------------
(* The inputs.                                                             *)

Todays == {Date(2024, 2, 29), Date(2025, 12, 31), Date(2026, 11, 2)}

Envs ==
    [key : BOOLEAN,
     provider : {"ok", "ctor_raises", "create_raises", "read_raises"}]

NoEnv == [key |-> FALSE, provider |-> "ok"]

DatesOf(years, months, days) ==
    {Date(y, m, d) : y \in years, m \in months, d \in days}
        \ {b \in {Date(y, m, d) : y \in years, m \in months, d \in days} :
              ~ValidDate(b.year, b.month, b.day)}

AgeInputs == MinAgeInput..MaxAgeInput

\* dates given to parse_birthdate by a caller of the library
CallDobs ==
    DatesOf({1899, 1900, 1996, 2000, 2024, 2025, 2026, 2027},
            {1, 2, 3, 11, 12}, {1, 2, 3, 28, 29, 30, 31})

\* dates the date_input widget offers: min_value .. max_value
min_date == Date(1900, 1, 1)

WidgetDobs(t) ==
    {b \in DatesOf({1900, 1995, 1996, 2000, 2024, 2025, 2026}, 1..12, 1..31) :
        DateLE(min_date, b) /\ DateLE(b, t)}

\* ages the number_input widget offers
WidgetAges == 1..129

StarSignDates == DatesOf({2000}, 1..12, 1..31)

YearInputs == MinYearInput..MaxYearInput

----------------------------------------------------------------------------
(* The state machine.                                                      *)

Init ==
    /\ today \in Todays
    /\ OpenAI \in BOOLEAN
    /\ env = NoEnv
    /\ pc = "idle"
    /\ age = None
    /\ dob = NoneDob
    /\ birth = NotCalled
    /\ subject = NoDate
    /\ periods = NoPeriods
    /\ star_sign = ""
    /\ year = 0
    /\ generation = ""
    /\ summary = NoSummary
    /\ ui_error = FALSE
    /\ crashed = FALSE

\* a caller of the library calls parse_birthdate(age=a, dob=d)
ParseBirthdateCall ==
    /\ pc = "idle"
    /\ \E a \in {None} \cup {Some(n) : n \in AgeInputs},
          d \in {NoneDob} \cup {Some(b) : b \in CallDobs} :
          /\ age' = a
          /\ dob' = d
          /\ birth' = parse_birthdate(a, d, today)
    /\ pc' = "parse_birthdate"
    /\ UNCHANGED <<today, OpenAI, env, subject, periods, star_sign, year, generation,
                   summary, ui_error, crashed>>

GetStarSignCall ==
    /\ pc = "idle"
    /\ \E b \in StarSignDates :
          /\ subject' = b
          /\ star_sign' = get_star_sign(b)
    /\ pc' = "get_star_sign"
    /\ UNCHANGED <<today, OpenAI, env, age, dob, birth, periods, year, generation,
                   summary, ui_error, crashed>>

GetGenerationCall ==
    /\ pc = "idle"
    /\ \E y \in YearInputs :
          /\ year' = y
          /\ generation' = get_generation(y)
    /\ pc' = "get_generation"
    /\ UNCHANGED <<today, OpenAI, env, age, dob, birth, subject, periods, star_sign,
                   summary, ui_error, crashed>>

GenerateSummaryCall ==
    /\ pc = "idle"
    /\ \E e \in Envs :
          /\ env' = e
          /\ summary' = generate_summary(OpenAI, e)
    /\ pc' = "generate_summary"
    /\ UNCHANGED <<today, OpenAI, age, dob, birth, subject, periods, star_sign,
                   year, generation, ui_error, crashed>>

\* the rest of the form handler once parse_birthdate has returned b
Results(b, e) ==
    LET p == compute_periods(b)
        s == generate_summary(OpenAI, e)
    IN  /\ subject' = b
        /\ periods' = p
        /\ IF p.kind = "return"
           THEN /\ star_sign' = get_star_sign(b)
                /\ year' = b.year
                /\ generation' = get_generation(b.year)
                /\ env' = e
                /\ summary' = s
                /\ crashed' = (s.kind # "return")
           ELSE /\ crashed' = TRUE
                /\ UNCHANGED <<star_sign, year, generation, env, summary>>

\* "Calculate" is pressed with the form's inputs
Submitted ==
    /\ pc = "idle"
    /\ \E a \in {None} \cup {Some(n) : n \in WidgetAges},
          d \in {NoneDob} \cup {Some(b) : b \in WidgetDobs(today)},
          e \in Envs :
          /\ a.given # d.given
          /\ age' = a
          /\ dob' = d
          /\ LET b == parse_birthdate(a, d, today)
             IN  /\ birth' = b
                 /\ IF b.kind = "ValueError"
                    THEN /\ ui_error' = TRUE
                         /\ UNCHANGED <<subject, periods, star_sign, year,
                                        generation, env, summary, crashed>>
                    ELSE /\ ui_error' = FALSE
                         /\ Results(b.val, e)
    /\ pc' = "submitted"
    /\ UNCHANGED <<today, OpenAI>>

Next ==
    \/ ParseBirthdateCall
    \/ GetStarSignCall
    \/ GetGenerationCall
    \/ GenerateSummaryCall
    \/ Submitted

Spec == Init /\ [][Next]_vars

----------------------------------------------------------------------------
(* Properties.                                                             *)

IsFeb29(b) == b.month = 2 /\ b.day = 29

ParseCalled == pc \in {"parse_birthdate", "submitted"}

\* C1: compute_periods never raises for a birth date that parse_birthdate
\* accepted; for a birth date of 29 February, each of the six offset dates
\* whose year is not a leap year is 28 February of that year.
C1_ComputePeriodsNeverRaises ==
    (pc = "submitted" /\ birth.kind = "return") =>
        /\ periods.kind = "return"
        /\ IsFeb29(subject) =>
              \A i \in 1..6 :
                  ~IsLeap(periods.val[i].year) =>
                      periods.val[i].month = 2 /\ periods.val[i].day = 28

\* C2: for every valid birth date (1900-01-01 .. today) compute_periods
\* yields six dates, and they are strictly increasing in the order
\* child_start, child_end, teen_start, teen_end, ya_start, ya_end.
C2_PeriodsStrictlyIncreasing ==
    (/\ pc = "submitted"
     /\ birth.kind = "return"
     /\ DateLE(min_date, birth.val)
     /\ DateLE(birth.val, today)) =>
        /\ periods.kind = "return"
        /\ \A i \in 1..5 : DateLT(periods.val[i], periods.val[i + 1])

MatchingSigns(b) == {i \in 1..12 : SignMatches(i, b.month, b.day)}

\* C3: every month/day pair of a full year, 29 February included, lies in
\* exactly one of the 12 sign ranges, and get_star_sign returns the sign of
\* that range, never "Unknown".
C3_ExactlyOneSign ==
    (star_sign # "") =>
        /\ Cardinality(MatchingSigns(subject)) = 1
        /\ star_sign # "Unknown"
        /\ \E i \in MatchingSigns(subject) : star_sign = Signs[i]

C3_Witness ==
    /\ pc = "get_star_sign"
    /\ IsFeb29(subject)
    /\ star_sign = "Pisces"

\* C4: a call of parse_birthdate that supplies both dob and age, or
\* neither, fails with ValueError and returns no date.
C4_BothOrNeitherFails ==
    (pc = "parse_birthdate" /\ age.given = dob.given) =>
        /\ birth.kind = "ValueError"
        /\ birth.val = NoDate

C4_Witness ==
    /\ pc = "parse_birthdate"
    /\ age.given
    /\ age.val = 30
    /\ dob.given
    /\ DateLE(dob.val, today)
    /\ birth.kind = "ValueError"

\* C5: with only age supplied, an age in 1..129 gives year today.year - age
\* with today's month and day, or 28 February of that year when today is
\* 29 February and that year is not a leap year; an age <= 0 or >= 130
\* fails with ValueError.
C5_AgePath ==
    (ParseCalled /\ age.given /\ ~dob.given) =>
        IF age.val \in 1..129
        THEN /\ birth.kind = "return"
             /\ birth.val.year = today.year - age.val
             /\ IF IsFeb29(today) /\ ~IsLeap(today.year - age.val)
                THEN birth.val.month = 2 /\ birth.val.day = 28
                ELSE /\ birth.val.month = today.month
                     /\ birth.val.day = today.day
        ELSE birth.kind = "ValueError"

C5_Witness ==
    /\ pc = "parse_birthdate"
    /\ IsFeb29(today)
    /\ age.given
    /\ ~dob.given
    /\ age.val = 129
    /\ birth = Returned(Date(today.year - 129, 2, 28))

\* C6: with only dob supplied, a dob on or before today (today included)
\* is returned unchanged, and a dob after today fails with ValueError.
C6_DobPath ==
    (ParseCalled /\ dob.given /\ ~age.given) =>
        IF DateGT(dob.val, today)
        THEN birth.kind = "ValueError"
        ELSE birth = Returned(dob.val)

C6_Witness ==
    /\ ParseCalled
    /\ dob.given
    /\ ~age.given
    /\ dob.val = today
    /\ birth = Returned(today)

\* C7: every date that parse_birthdate returns lies in 1900-01-01 .. today.
C7_BirthDateInRange ==
    (ParseCalled /\ birth.kind = "return") =>
        /\ DateLE(min_date, birth.val)
        /\ DateLE(birth.val, today)

MatchingGenerations(y) == {i \in 1..6 : GenerationMatches(i, y)}

GenerationTable(y) ==
    IF y < 1928 THEN "Unknown"
    ELSE IF y <= 1945 THEN "Silent Generation"
    ELSE IF y <= 1964 THEN "Baby Boomer"
    ELSE IF y <= 1980 THEN "Generation X"
    ELSE IF y <= 1996 THEN "Millennial"
    ELSE IF y <= 2012 THEN "Generation Z"
    ELSE "Generation Alpha"

\* C8: get_generation returns "Unknown" exactly for the years before 1928,
\* and every year from 1928 on lies in exactly one range, whose label it
\* returns (1928-1945, 1946-1964, 1965-1980, 1981-1996, 1997-2012, 2013-).
C8_GenerationRanges ==
    (generation # "") =>
        /\ (generation = "Unknown") <=> (year < 1928)
        /\ (year >= 1928) => Cardinality(MatchingGenerations(year)) = 1
        /\ generation = GenerationTable(year)

C8_Witness ==
    /\ pc = "get_generation"
    /\ year = 1946
    /\ generation = "Baby Boomer"

SummaryCalled ==
    \/ pc = "generate_summary"
    \/ pc = "submitted" /\ periods.kind = "return"

\* C9: generate_summary never raises: without the key or the library it
\* returns the placeholder, and with them every failure of the provider
\* path (constructing the client, the request, reading the response)
\* becomes a returned error string.
C9_SummaryNeverRaises ==
    SummaryCalled =>
        /\ summary.kind = "return"
        /\ (~OpenAI \/ ~env.key) => summary.text = "placeholder"
        /\ (OpenAI /\ env.key /\ env.provider # "ok") => summary.text = "error"

\* C10: when compute_periods returns, the six dates have the years
\* birth.year + 5, + 12, + 13, + 19, + 20 and + 29, in that order, each with
\* the month and day of the birth date (or 28 February for a birth date of
\* 29 February in a year that is not a leap year).
C10_PeriodOffsets ==
    (periods.kind = "return") =>
        LET p == periods.val
            SameDay(x) ==
                \/ x.month = subject.month /\ x.day = subject.day
                \/ /\ IsFeb29(subject)
                   /\ ~IsLeap(x.year)
                   /\ x.month = 2
                   /\ x.day = 28
        IN  /\ p[1].year = subject.year + 5
            /\ p[2].year = subject.year + 12
            /\ p[3].year = subject.year + 13
            /\ p[4].year = subject.year + 19
            /\ p[5].year = subject.year + 20
            /\ p[6].year = subject.year + 29
            /\ \A i \in 1..6 : SameDay(p[i])

C10_Witness ==
    /\ pc = "submitted"
    /\ subject = Date(1995, 1, 1)
    /\ periods.kind = "return"
    /\ periods.val[1] = Date(2000, 1, 1)
    /\ periods.val[6] = Date(2024, 1, 1)

====
